---- MODULE Spec2Model ----
(***************************************************************************)
(* A model of pymsio's in-memory LC/MS store (pymsio/readers/ms_data.py)   *)
(* and of the helpers it calls (pymsio/readers/utils.py).                  *)
(*                                                                         *)
(* numpy arrays are 0-indexed in the source; here an array is a TLA+       *)
(* sequence and At0/Slice0/SliceAssign0 address it with the source's       *)
(* 0-based, half-open indices.  float32 values are modelled by small       *)
(* integers; a z-score Phi(num/den) is the reduced pair <<num, den>>.      *)
(* Optional values (None / an object) are <<>> / <<x>>.                    *)
(***************************************************************************)
EXTENDS Integers, Sequences, FiniteSets, TLC

\* ---------------------------------------------------------------- bounds
\* largest number of metadata rows / peak lists handed to create
MaxRows == 2
\* largest total number of peaks over all the peak lists of one create call
MaxPeaks == 2
\* largest frame_num of a metadata table
MaxFrameNum == 2
\* longest frame_nums sequence handed to collect_peaks
MaxReq == 2

\* the intensity values a peak may carry
AbVals == {5, 10}

\* the m/z of the k-th peak handed to create (counted over all the peak
\* lists): every peak carries its own m/z, so that a peak that is moved,
\* dropped or repeated shows in the mz array
MzOf(k) == 100 + k

\* an element of np.empty(...) that was never written
Uninit == -1
\* a z-score that is not a number (a division by a zero iqr)
NaN == <<0, 0>>

None == <<>>
Some(x) == <<x>>
IsNone(o) == o = <<>>
TheVal(o) == o[1]

\* ------------------------------------------------------- 0-based arrays
At0(a, i) == a[i + 1]

\* a[st:ed] for 0 <= st, clipped to the array like a numpy slice
Slice0(a, st, ed) ==
    LET e == IF ed > Len(a) THEN Len(a) ELSE ed
    IN  IF e <= st THEN <<>> ELSE [k \in 1..(e - st) |-> a[st + k]]

\* a[st:ed] = src (src has ed - st elements)
SliceAssign0(a, st, ed, src) ==
    [k \in 1..Len(a) |-> IF k > st /\ k <= ed THEN src[k - st] ELSE a[k]]

\* a[st:ed] = v (a scalar broadcast over the slice)
SliceFill0(a, st, ed, v) ==
    [k \in 1..Len(a) |-> IF k > st /\ k <= ed THEN v ELSE a[k]]

\* np.concatenate(list of arrays)
RECURSIVE Concatenate(_)
Concatenate(arrs) ==
    IF arrs = <<>> THEN <<>> ELSE Head(arrs) \o Concatenate(Tail(arrs))

\* ------------------------------------------------------------ PeakArray
PeakArray(mz, ab) == [mz |-> mz, ab |-> ab]

\* PeakArray.__len__
PeakLen(p) == Len(p.mz)

\* the (mz, ab) pairs of equal length n whose first peak is peak number
\* first + 1 of the input
PeakArraysOfLen(n, first) ==
    {PeakArray([k \in 1..n |-> MzOf(first + k)], a) : a \in [1..n -> AbVals]}

\* every split of at most total peaks over n peak lists, the peaks numbered
\* from first + 1 on
RECURSIVE PeakListsOf(_, _, _)
PeakListsOf(n, total, first) ==
    IF n = 0 THEN {<<>>}
    ELSE UNION {{<<p>> \o rest : p \in PeakArraysOfLen(c, first),
                                 rest \in PeakListsOf(n - 1, total - c, first + c)}
                : c \in 0..total}

\* the frame_num columns of n rows, ascending and unique, within 0..MaxFrameNum
FrameNumColumns(n) ==
    {f \in [1..n -> 0..MaxFrameNum] : \A i \in 1..(n - 1) : f[i] < f[i + 1]}

\* ------------------------------------------------------------ the state
\* the Store's run_name, and another run kept in the same container file
run_name == "runA"
other_run == "runB"

VARIABLES
    built,              \* TRUE once create has returned a MassSpecData
    list_of_peaks,      \* the list_of_peaks argument of the successful create
    meta_df,            \* rows [frame_num, peak_start, peak_stop]
    peaks,              \* PeakArray(mz, ab): the concatenated arrays
    frame_num_to_index, \* the dense lookup array
    z_score_arr,        \* None or Some(array)
    hdf,                \* the container file: group key -> None or Some(group)
    ret,                \* what the last call returned or raised
    z_calls,            \* compute_z_score calls made on the Store: 0, 1, or
                        \* 2 for two or more
    kernel_runs,        \* number of runs of compute_z_score_cdf_numba
    raw,                \* ThermoRawReader: the scans of the RAW file
    centroided,         \* ThermoRawReader.centroided
    reader_meta_df,     \* ThermoRawReader._meta_df: None or Some(rows)
    reader_ret,         \* what the last ThermoRawReader call returned or raised
    pc,                 \* threads in compute_z_score: where each one is
    out_buf,            \* the kernel's output buffer while its prange loop runs
    task_pos,           \* prange loop: per range, "todo", "done" or the next j
    written             \* prange loop: per output position, the ranges' tasks
                        \* that wrote it

\* the state of the reader, of the threads and of the running kernel
aux == <<raw, centroided, reader_meta_df, reader_ret, pc, out_buf, task_pos, written>>

vars == <<built, list_of_peaks, meta_df, peaks, frame_num_to_index,
          z_score_arr, hdf, ret, z_calls, kernel_runs, aux>>

store == <<built, list_of_peaks, meta_df, peaks, frame_num_to_index>>

\* the result of a call: the values returned (unused fields stay empty) or
\* the exception raised (err)
Ret(op, arg, err) ==
    [op |-> op, arg |-> arg, err |-> err, st |-> 0, ed |-> 0,
     frame_num |-> <<>>, mz |-> <<>>, ab |-> <<>>, z |-> None]

\* no call is under way: the caller has taken the last result
Idle == Ret("idle", <<>>, "")

\* a group already in the container before this Store writes: an older
\* acquisition stored under the same run name, and the other run's group
OldGroup ==
    [mz |-> <<MzOf(9)>>, ab |-> <<10>>,
     meta_df |-> Some(<<[frame_num |-> 1, peak_start |-> 0, peak_stop |-> 1]>>)]
OtherGroup ==
    [mz |-> <<MzOf(7), MzOf(8)>>, ab |-> <<5, 10>>,
     meta_df |-> Some(<<[frame_num |-> 0, peak_start |-> 0, peak_stop |-> 2]>>)]

\* no reader is open, no thread is inside compute_z_score and no kernel runs
AuxInit ==
    /\ raw = <<>>
    /\ centroided = TRUE
    /\ reader_meta_df = None
    /\ reader_ret = <<>>
    /\ pc = <<>>
    /\ out_buf = <<>>
    /\ task_pos = <<>>
    /\ written = <<>>

Init ==
    /\ built = FALSE
    /\ list_of_peaks = <<>>
    /\ meta_df = <<>>
    /\ peaks = PeakArray(<<>>, <<>>)
    /\ frame_num_to_index = <<>>
    /\ z_score_arr = None
    /\ hdf \in {[k \in {run_name, other_run} |->
                    IF k = other_run THEN Some(OtherGroup) ELSE g]
                : g \in {None, Some(OldGroup)}}
    /\ ret = Idle
    /\ z_calls = 0
    /\ kernel_runs = 0
    /\ AuxInit

\* ------------------------------------------------------------ Frame Index
\* a lookup array filled with row numbers counted from 1
get_frame_num_to_index_arr_from1(frame_nums) ==
    [k \in 1..(frame_nums[Len(frame_nums)] + 1) |->
        LET rows == {i \in 1..Len(frame_nums) : frame_nums[i] = k - 1}
        IN  IF rows = {} THEN 0 ELSE CHOOSE i \in rows : \A j \in rows : j <= i]

\* utils.get_frame_num_to_index_arr: zeros(frame_nums[-1] + 1), then
\* num_to_idx[frame_nums] = arange(len(frame_nums)); of two rows with the
\* same frame_num the later assignment stays
get_frame_num_to_index_arr(frame_nums) ==
    LET n == frame_nums[Len(frame_nums)] + 1
    IN  [k \in 1..n |->
            LET rows == {i \in 1..Len(frame_nums) : frame_nums[i] = k - 1}
            IN  IF rows = {} THEN 0
                ELSE (CHOOSE i \in rows : \A j \in rows : j <= i) - 1]

\* ---------------------------------------------------------- Arena Builder
\* pl.col("peak_count").cum_sum().  The column is UInt32; a sum stays below
\* 2^32 for every arena that fits in memory as two float32 arrays of that
\* length, so the sums are modelled as unbounded naturals
RECURSIVE cum_sum(_)
cum_sum(counts) ==
    IF counts = <<>> THEN <<>>
    ELSE LET n == Len(counts)
             before == cum_sum(SubSeq(counts, 1, n - 1))
         IN  Append(before,
                    (IF n = 1 THEN 0 ELSE before[n - 1]) + counts[n])

\* a peak_start column that misses the shift by one row
shift_fill_unshifted(col) == col

\* pl.col("peak_stop").shift(1).fill_null(0)
shift_fill(col) == [i \in 1..Len(col) |-> IF i = 1 THEN 0 ELSE col[i - 1]]

\* the metadata table create derives: the rows of frame_nums with the
\* peak_start / peak_stop columns appended
create_meta_df(frame_nums, lop) ==
    LET peak_count == [i \in 1..Len(lop) |-> PeakLen(lop[i])]
        peak_stop == cum_sum(peak_count)
        peak_start == shift_fill(peak_stop)
    IN  [i \in 1..Len(frame_nums) |->
            [frame_num |-> frame_nums[i],
             peak_start |-> peak_start[i],
             peak_stop |-> peak_stop[i]]]

create_peaks(lop) ==
    PeakArray(Concatenate([i \in 1..Len(lop) |-> lop[i].mz]),
              Concatenate([i \in 1..Len(lop) |-> lop[i].ab]))

FrameNumCol(df) == [i \in 1..Len(df) |-> df[i].frame_num]

\* MassSpecData.__init__ as create calls it
NewStore(frame_nums, lop) ==
    LET df == create_meta_df(frame_nums, lop)
    IN  /\ built' = TRUE
        /\ list_of_peaks' = lop
        /\ meta_df' = df
        /\ peaks' = create_peaks(lop)
        /\ frame_num_to_index' = get_frame_num_to_index_arr(FrameNumCol(df))
        /\ z_score_arr' = None
        /\ ret' = Ret("create", <<Len(frame_nums), Len(lop)>>, "")

\* a create without the assert, pairing rows and peak lists like zip:
\* up to the shorter of the two
create_unchecked(frame_nums, lop) ==
    LET m == IF Len(frame_nums) < Len(lop) THEN Len(frame_nums) ELSE Len(lop)
    IN  /\ IF m = 0
           THEN /\ ret' = Ret("create", <<Len(frame_nums), Len(lop)>>, "ValueError")
                /\ UNCHANGED <<store, z_score_arr>>
           ELSE /\ NewStore(SubSeq(frame_nums, 1, m), SubSeq(lop, 1, m))
        /\ UNCHANGED <<hdf, z_calls, kernel_runs, aux>>

\* MassSpecData.create(run_name, meta_df, list_of_peaks).  The assert raises
\* on a row-count mismatch; np.concatenate raises on an empty list.  The
\* result names the two counts: <<rows of meta_df, len(list_of_peaks)>>.
create(frame_nums, lop) ==
    /\ IF Len(frame_nums) # Len(lop)
       THEN /\ ret' = Ret("create", <<Len(frame_nums), Len(lop)>>, "AssertionError")
            /\ UNCHANGED <<store, z_score_arr>>
       ELSE IF Len(lop) = 0
       THEN /\ ret' = Ret("create", <<Len(frame_nums), Len(lop)>>, "ValueError")
            /\ UNCHANGED <<store, z_score_arr>>
       ELSE NewStore(frame_nums, lop)
    /\ UNCHANGED <<hdf, z_calls, kernel_runs, aux>>

Create ==
    /\ ret = Idle
    /\ ~built
    /\ \E n \in 0..MaxRows, m \in 0..MaxRows :
          \E frame_nums \in FrameNumColumns(n),
             lop \in PeakListsOf(m, MaxPeaks, 0) :
              create(frame_nums, lop)

\* -------------------------------------------------------------- Accessor
\* self.frame_num_to_index[i] for a Python int i: numpy counts a negative
\* index from the end and raises IndexError outside [-n, n)
InBounds(i) ==
    /\ i < Len(frame_num_to_index)
    /\ i >= -Len(frame_num_to_index)

LookUp(i) == At0(frame_num_to_index, i % Len(frame_num_to_index))

\* MassSpecData.get_peak_index(frame_num)
get_peak_index(frame_num) ==
    IF ~InBounds(frame_num)
    THEN Ret("get_peak_index", <<frame_num>>, "IndexError")
    ELSE LET idx == LookUp(frame_num)
         IN  [Ret("get_peak_index", <<frame_num>>, "")
                EXCEPT !.st = At0(meta_df, idx).peak_start,
                       !.ed = At0(meta_df, idx).peak_stop]

\* a get_frame that slices the arena from 0 instead of from peak_start
get_frame_from0(frame_num) ==
    LET r == get_peak_index(frame_num)
    IN  IF r.err # "" THEN [r EXCEPT !.op = "get_frame"]
        ELSE [r EXCEPT !.op = "get_frame",
                       !.mz = Slice0(peaks.mz, 0, r.ed - r.st),
                       !.ab = Slice0(peaks.ab, 0, r.ed - r.st)]

\* MassSpecData.get_frame(frame_num)
get_frame(frame_num) ==
    LET r == get_peak_index(frame_num)
    IN  IF r.err # "" THEN [r EXCEPT !.op = "get_frame"]
        ELSE [r EXCEPT !.op = "get_frame",
                       !.mz = Slice0(peaks.mz, r.st, r.ed),
                       !.ab = Slice0(peaks.ab, r.st, r.ed)]

\* the loop of get_all_peak_df over the first n rows
RECURSIVE FillFrameNums(_, _)
FillFrameNums(arr, n) ==
    IF n = 0 THEN arr
    ELSE SliceFill0(FillFrameNums(arr, n - 1),
                    meta_df[n].peak_start, meta_df[n].peak_stop,
                    meta_df[n].frame_num)

\* MassSpecData.get_all_peak_df()
get_all_peak_df ==
    [Ret("get_all_peak_df", <<>>, "")
        EXCEPT !.frame_num = FillFrameNums([k \in 1..Len(peaks.mz) |-> Uninit],
                                           Len(meta_df)),
               !.mz = peaks.mz,
               !.ab = peaks.ab]

UninitZ == <<Uninit, 1>>

\* sum of (peak_stop - peak_start) over the gathered rows
RECURSIVE SumPeaks(_)
SumPeaks(rows) ==
    IF rows = <<>> THEN 0
    ELSE (Head(rows).peak_stop - Head(rows).peak_start) + SumPeaks(Tail(rows))

\* a copy loop body that leaves the z-score output unwritten
WriteBlockNoZ(o, st, ed, row) ==
    [o EXCEPT
       !.frame_num = SliceFill0(@, st, ed, row.frame_num),
       !.mz = SliceAssign0(@, st, ed,
                           Slice0(peaks.mz, row.peak_start, row.peak_stop)),
       !.ab = SliceAssign0(@, st, ed,
                           Slice0(peaks.ab, row.peak_start, row.peak_stop))]

\* the body of the copy loop for a scan with peaks: the four slice
\* assignments into out[st:ed] from the arena range of row
WriteBlock(o, st, ed, row) ==
    [o EXCEPT
       !.frame_num = SliceFill0(@, st, ed, row.frame_num),
       !.mz = SliceAssign0(@, st, ed,
                           Slice0(peaks.mz, row.peak_start, row.peak_stop)),
       !.ab = SliceAssign0(@, st, ed,
                           Slice0(peaks.ab, row.peak_start, row.peak_stop)),
       !.z = IF IsNone(z_score_arr) THEN @
             ELSE Some(SliceAssign0(TheVal(@), st, ed,
                         Slice0(TheVal(z_score_arr),
                                row.peak_start, row.peak_stop)))]

\* an iteration of the copy loop that does not advance the write offset
CollectStepNoAdvance(acc, row) ==
    LET n == row.peak_stop - row.peak_start
    IN  IF n > 0
        THEN [out |-> WriteBlock(acc.out, acc.st, acc.st + n, row),
              st |-> acc.st]
        ELSE acc

\* one iteration of the copy loop: acc is the output so far and the write
\* offset st
CollectStep(acc, row) ==
    LET n == row.peak_stop - row.peak_start
    IN  IF n > 0
        THEN [out |-> WriteBlock(acc.out, acc.st, acc.st + n, row),
              st |-> acc.st + n]
        ELSE acc

\* the copy loop of collect_peaks over the first n gathered rows
RECURSIVE CollectLoop(_, _, _)
CollectLoop(rows, out, n) ==
    IF n = 0 THEN [out |-> out, st |-> 0]
    ELSE CollectStep(CollectLoop(rows, out, n - 1), rows[n])

\* MassSpecData.collect_peaks(frame_nums)
collect_peaks(frame_nums) ==
    IF \E k \in 1..Len(frame_nums) : ~InBounds(frame_nums[k])
    THEN Ret("collect_peaks", frame_nums, "IndexError")
    ELSE LET peak_idx_df ==
                 [k \in 1..Len(frame_nums) |->
                     At0(meta_df, LookUp(frame_nums[k]))]
             num_peaks == SumPeaks(peak_idx_df)
             empty == [k \in 1..num_peaks |-> Uninit]
             out == [Ret("collect_peaks", frame_nums, "")
                       EXCEPT !.frame_num = empty,
                              !.mz = empty,
                              !.ab = empty,
                              !.z = IF IsNone(z_score_arr) THEN None
                                    ELSE Some([k \in 1..num_peaks |-> UninitZ])]
         IN  CollectLoop(peak_idx_df, out, Len(peak_idx_df)).out

\* the frame numbers the model hands to the accessors
FrameNumArgs == (-1)..(MaxFrameNum + 1)
FrameNumSeqs == UNION {[1..n -> 0..MaxFrameNum] : n \in 0..MaxReq}

ReadOnly(r) ==
    /\ ret' = r
    /\ UNCHANGED <<store, z_score_arr, hdf, z_calls, kernel_runs, aux>>

\* a call on the Store: there is one, and no other call is under way
CanCall == ret = Idle /\ built

GetPeakIndex ==
    CanCall /\ \E f \in FrameNumArgs : ReadOnly(get_peak_index(f))

GetFrame ==
    CanCall /\ \E f \in FrameNumArgs : ReadOnly(get_frame(f))

GetAllPeakDf ==
    CanCall /\ ReadOnly(get_all_peak_df)

CollectPeaks ==
    CanCall /\ \E fs \in FrameNumSeqs : ReadOnly(collect_peaks(fs))

\* ----------------------------------------------------- Statistics Engine
\* A z-score value Phi(z) = 0.5 * (1 + erf(z / sqrt(2))) is kept as its
\* argument z, the reduced fraction <<num, den>>; Phi is strictly increasing,
\* so two values are equal exactly when their arguments are.  0.5 is Phi(0).
Half == <<0, 1>>

RECURSIVE GCD(_, _)
GCD(a, b) == IF b = 0 THEN a ELSE GCD(b, a % b)

Abs(x) == IF x < 0 THEN -x ELSE x

\* utils._norm_cdf applied to z = num * (1 / den), den >= 0; a zero den is
\* a division by zero and gives no number
_norm_cdf(num, den) ==
    IF den = 0 THEN NaN
    ELSE LET g == GCD(Abs(num), den) IN <<num \div g, den \div g>>

\* the array sorted ascending (np.quantile selects from the ordered values)
RECURSIVE Insert(_, _)
Insert(x, sorted) ==
    IF sorted = <<>> THEN <<x>>
    ELSE IF x <= Head(sorted) THEN <<x>> \o sorted
    ELSE <<Head(sorted)>> \o Insert(x, Tail(sorted))

RECURSIVE SortAsc(_)
SortAsc(a) == IF a = <<>> THEN <<>> ELSE Insert(Head(a), SortAsc(Tail(a)))

\* 4 * np.quantile(ab, k / 4) with linear interpolation: with
\* (n - 1) * k = 4 * f + r the quantile is s[f] * (1 - r/4) + s[f + 1] * r/4
\* over the ordered values s (0-based)
Quantile4(ab, k) ==
    LET s == SortAsc(ab)
        f == ((Len(ab) - 1) * k) \div 4
        r == ((Len(ab) - 1) * k) % 4
    IN  IF r = 0 THEN 4 * At0(s, f)
        ELSE At0(s, f) * (4 - r) + At0(s, f + 1) * r

\* a prange iteration that divides by the iqr without testing it
ZScoreTaskNoGuard(out, ab_arr, st, ed) ==
    IF ed > st
    THEN LET ab == Slice0(ab_arr, st, ed)
             q2 == Quantile4(ab, 2)
             iqr == Quantile4(ab, 3) - Quantile4(ab, 1)
         IN  [j \in 1..Len(out) |->
                 IF j > st /\ j <= ed
                 THEN _norm_cdf(4 * ab_arr[j] - q2, iqr)
                 ELSE out[j]]
    ELSE out

\* one iteration of the prange loop: the range [st, ed) of row i
ZScoreTask(out, ab_arr, st, ed) ==
    IF ed > st
    THEN LET ab == Slice0(ab_arr, st, ed)
             q1 == Quantile4(ab, 1)
             q2 == Quantile4(ab, 2)
             q3 == Quantile4(ab, 3)
             iqr == q3 - q1
         IN  IF iqr > 0
             THEN [j \in 1..Len(out) |->
                     IF j > st /\ j <= ed
                     THEN _norm_cdf(4 * ab_arr[j] - q2, iqr)
                     ELSE out[j]]
             ELSE out
    ELSE out

\* the prange loop over the first n ranges, run in index order
RECURSIVE ZScoreLoop(_, _, _)
ZScoreLoop(ab_arr, peak_range_arr, n) ==
    IF n = 0 THEN [i \in 1..Len(ab_arr) |-> Half]
    ELSE ZScoreTask(ZScoreLoop(ab_arr, peak_range_arr, n - 1), ab_arr,
                    peak_range_arr[n][1], peak_range_arr[n][2])

\* utils.compute_z_score_cdf_numba(ab_arr, peak_range_arr)
compute_z_score_cdf_numba(ab_arr, peak_range_arr) ==
    ZScoreLoop(ab_arr, peak_range_arr, Len(peak_range_arr))

\* a compute_z_score that runs the kernel on every call
compute_z_score_always ==
    /\ CanCall
    /\ kernel_runs < 2
    /\ z_calls' = IF z_calls = 0 THEN 1 ELSE 2
    /\ z_score_arr' =
           Some(compute_z_score_cdf_numba(peaks.ab,
                    [i \in 1..Len(meta_df) |->
                        <<meta_df[i].peak_start, meta_df[i].peak_stop>>]))
    /\ kernel_runs' = kernel_runs + 1
    /\ ret' = Ret("compute_z_score", <<>>, "")
    /\ UNCHANGED <<store, hdf, aux>>

\* MassSpecData.compute_z_score()
compute_z_score ==
    /\ CanCall
    /\ z_calls' = IF z_calls = 0 THEN 1 ELSE 2
    /\ IF IsNone(z_score_arr)
       THEN LET peak_range_arr ==
                    [i \in 1..Len(meta_df) |->
                        <<meta_df[i].peak_start, meta_df[i].peak_stop>>]
            IN  /\ z_score_arr' =
                       Some(compute_z_score_cdf_numba(peaks.ab, peak_range_arr))
                /\ kernel_runs' = kernel_runs + 1
       ELSE UNCHANGED <<z_score_arr, kernel_runs>>
    /\ ret' = Ret("compute_z_score", <<>>, "")
    /\ UNCHANGED <<store, hdf, aux>>

\* ------------------------------------------------------------ Persistence
\* MassSpecData.write_hdf(file_path, overwrite): the h5py block replaces or
\* refuses an existing group and writes the two datasets; pandas then stores
\* the table under <run_name>/meta_df
OverwriteArg(overwrite) == IF overwrite THEN <<1>> ELSE <<0>>

\* a write_hdf that replaces an existing group whatever overwrite says
write_hdf_unchecked(overwrite) ==
    /\ hdf' = [hdf EXCEPT ![run_name] =
                  Some([mz |-> peaks.mz, ab |-> peaks.ab,
                        meta_df |-> Some(meta_df)])]
    /\ ret' = Ret("write_hdf", OverwriteArg(overwrite), "")
    /\ UNCHANGED <<store, z_score_arr, z_calls, kernel_runs, aux>>

\* a write_hdf whose overwrite keeps the datasets of the existing group
\* and only stores the table again
write_hdf_merging(overwrite) ==
    /\ IF ~IsNone(hdf[run_name]) /\ ~overwrite
       THEN /\ ret' = Ret("write_hdf", OverwriteArg(overwrite), "FileExistsError")
            /\ UNCHANGED hdf
       ELSE LET hf_grp == IF IsNone(hdf[run_name])
                          THEN [mz |-> peaks.mz, ab |-> peaks.ab,
                                meta_df |-> None]
                          ELSE TheVal(hdf[run_name])
                stored == [hf_grp EXCEPT !.meta_df = Some(meta_df)]
            IN  /\ hdf' = [hdf EXCEPT ![run_name] = Some(stored)]
                /\ ret' = Ret("write_hdf", OverwriteArg(overwrite), "")
    /\ UNCHANGED <<store, z_score_arr, z_calls, kernel_runs, aux>>

\* MassSpecData.write_hdf(file_path, overwrite)
write_hdf(overwrite) ==
    /\ IF ~IsNone(hdf[run_name]) /\ ~overwrite
       THEN /\ ret' = Ret("write_hdf", OverwriteArg(overwrite), "FileExistsError")
            /\ UNCHANGED hdf
       ELSE LET hf_grp == [mz |-> peaks.mz, ab |-> peaks.ab, meta_df |-> None]
                stored == [hf_grp EXCEPT !.meta_df = Some(meta_df)]
            IN  /\ hdf' = [hdf EXCEPT ![run_name] = Some(stored)]
                /\ ret' = Ret("write_hdf", OverwriteArg(overwrite), "")
    /\ UNCHANGED <<store, z_score_arr, z_calls, kernel_runs, aux>>

WriteHdf == CanCall /\ \E overwrite \in BOOLEAN : write_hdf(overwrite)

\* the caller takes the result of the call; the next call starts from here
Return ==
    /\ ret # Idle
    /\ ret' = Idle
    /\ UNCHANGED <<store, z_score_arr, hdf, z_calls, kernel_runs, aux>>

Next ==
    \/ Create
    \/ GetPeakIndex
    \/ GetFrame
    \/ GetAllPeakDf
    \/ CollectPeaks
    \/ compute_z_score
    \/ WriteHdf
    \/ Return

Spec == Init /\ [][Next]_vars

\* ------------------------------------------------------- ThermoRawReader
\* the largest number of scans of a RAW file
MaxScans == 2

\* ISimpleScanAccess: the Masses and Intensities of one scan, the masses
\* numbered like the peaks of a peak list
SimpleScan(intensities) ==
    [Masses |-> [k \in 1..Len(intensities) |-> MzOf(k)],
     Intensities |-> intensities]

\* what the RAW file holds of one scan's signal: IsCentroidScanFromScanNumber,
\* GetSimplifiedScan and GetSimplifiedCentroids.  An intensity of 0 is a
\* point the instrument recorded without signal.
ScanSignals ==
    {[IsCentroid |-> TRUE, Scan |-> SimpleScan(<<>>),
      Centroids |-> SimpleScan(<<>>)],
     [IsCentroid |-> TRUE, Scan |-> SimpleScan(<<5>>),
      Centroids |-> SimpleScan(<<5>>)],
     [IsCentroid |-> TRUE, Scan |-> SimpleScan(<<0, 10>>),
      Centroids |-> SimpleScan(<<0, 10>>)],
     [IsCentroid |-> FALSE, Scan |-> SimpleScan(<<5, 10, 0>>),
      Centroids |-> SimpleScan(<<10>>)]}

\* IReaction of an MSn scan event
Reaction(valid, first, last, mass, width) ==
    [PrecursorRangeIsValid |-> valid,
     FirstPrecursorMass |-> first,
     LastPrecursorMass |-> last,
     PrecursorMass |-> mass,
     IsolationWidth |-> width]

\* what the RAW file holds of one scan's event and statistics: MSOrder,
\* GetReaction(0) (an MS1 scan has none), LowMass and HighMass.  The
\* isolation widths are even, so that width / 2.0 is a whole number.
ScanEvents ==
    {[MSOrder |-> 1, Reaction |-> None, LowMass |-> 380, HighMass |-> 980],
     [MSOrder |-> 2, Reaction |-> Some(Reaction(TRUE, 499, 502, 500, 2)),
      LowMass |-> 150, HighMass |-> 1800],
     [MSOrder |-> 2, Reaction |-> Some(Reaction(FALSE, 0, 0, 500, 2)),
      LowMass |-> 150, HighMass |-> 1800],
     [MSOrder |-> 2, Reaction |-> Some(Reaction(FALSE, 0, 0, 700, 4)),
      LowMass |-> 150, HighMass |-> 1800]}

Scans == {[event |-> e, signal |-> s] : e \in ScanEvents, s \in ScanSignals}

\* the RAW files of at least one scan: scan number k is raw[k], so that
\* RunHeaderEx.FirstSpectrum is 1 and LastSpectrum is Len(raw)
RawFiles == UNION {[1..n -> Scans] : n \in 1..MaxScans}

first_scan_number == 1
last_scan_number == Len(raw)

\* a float32 array of shape (n, 2): one row <<mz, intensity>> per peak
NdArray2(rows) ==
    [dtype |-> "float32", shape |-> <<Len(rows), 2>>, data |-> rows]

\* Python attribute access: what has an attribute of that name.  A
\* PeakArray has mz and ab; a numpy array has dtype, shape and data, not mz.
HasAttr(obj, name) == name \in DOMAIN obj

\* isinstance(obj, PeakArray): the NamedTuple of the two fields mz and ab
IsPeakArray(obj) == DOMAIN obj = {"mz", "ab"}

\* arr[mask] for a boolean mask of the same length
RECURSIVE BoolIndex(_, _)
BoolIndex(arr, mask) ==
    IF arr = <<>> THEN <<>>
    ELSE (IF Head(mask) THEN <<Head(arr)>> ELSE <<>>)
         \o BoolIndex(Tail(arr), Tail(mask))

\* ThermoRawReader._read_peaks_arrays(frame_num) with prefer_centroid None
_read_peaks_arrays(frame_num) ==
    LET prefer_centroid == centroided
        signal == raw[frame_num].signal
        is_centroid == signal.IsCentroid
        data == IF (~is_centroid) /\ prefer_centroid
                THEN signal.Centroids
                ELSE signal.Scan
        mz_arr == data.Masses
        inten_arr == data.Intensities
    IN  IF Len(mz_arr) = 0
        THEN NdArray2(<<>>)
        ELSE LET mask == [k \in 1..Len(inten_arr) |-> inten_arr[k] > 0]
                 all == \A k \in 1..Len(mask) : mask[k]
                 mz_kept == IF ~all THEN BoolIndex(mz_arr, mask) ELSE mz_arr
                 inten_kept == IF ~all THEN BoolIndex(inten_arr, mask)
                               ELSE inten_arr
             IN  NdArray2([k \in 1..Len(mz_kept) |->
                               <<mz_kept[k], inten_kept[k]>>])

\* ThermoRawReader.get_frame(frame_num)
ThermoRawReader_get_frame(frame_num) == _read_peaks_arrays(frame_num)

\* the isolation window of one scan as get_meta_df derives it:
\* <<isolation_min_mz, isolation_max_mz>>
IsolationWindow(event) ==
    LET ms_level == event.MSOrder
    IN  IF ms_level = 1
        THEN <<None, None>>
        ELSE LET reaction == TheVal(event.Reaction)
             IN  IF reaction.PrecursorRangeIsValid
                 THEN <<Some(reaction.FirstPrecursorMass),
                        Some(reaction.LastPrecursorMass)>>
                 ELSE LET isolation_center == reaction.PrecursorMass
                          isolation_width == reaction.IsolationWidth
                          isolation_min_mz ==
                              isolation_center - isolation_width \div 2
                          isolation_max_mz ==
                              isolation_min_mz + isolation_width \div 2
                      IN  <<Some(isolation_min_mz), Some(isolation_max_mz)>>

\* one row of the table get_meta_df builds; StartTime of scan k is k minutes
MetaRow(frame_num) ==
    LET event == raw[frame_num].event
        rt == frame_num
        window == IsolationWindow(event)
    IN  [frame_num |-> frame_num,
         time_in_seconds |-> rt * 60,
         ms_level |-> event.MSOrder,
         isolation_min_mz |-> window[1],
         isolation_max_mz |-> window[2],
         mz_lo |-> event.LowMass,
         mz_hi |-> event.HighMass]

\* the value get_meta_df returns: the cached table, or the table read now
MetaDfOf ==
    IF ~IsNone(reader_meta_df)
    THEN TheVal(reader_meta_df)
    ELSE [k \in 1..(last_scan_number - first_scan_number + 1) |->
              MetaRow(first_scan_number + k - 1)]

ReaderRet(op, arg, err, val) == [op |-> op, arg |-> arg, err |-> err, val |-> val]
ReaderIdle == ReaderRet("idle", <<>>, "", <<>>)
ReaderCanCall == reader_ret.op = "idle"

\* what a reader call leaves alone: the Store's calls, the threads, the kernel
reader_rest == <<hdf, z_calls, kernel_runs, raw, centroided,
                 pc, out_buf, task_pos, written>>

\* ThermoRawReader.get_meta_df()
get_meta_df ==
    /\ ReaderCanCall
    /\ reader_meta_df' = Some(MetaDfOf)
    /\ reader_ret' = ReaderRet("get_meta_df", <<>>, "", MetaDfOf)
    /\ UNCHANGED <<store, z_score_arr, ret, reader_rest>>

\* reader.get_frame(frame_num) for a scan number of the file
ReaderGetFrame ==
    /\ ReaderCanCall
    /\ \E frame_num \in first_scan_number..last_scan_number :
          reader_ret' = ReaderRet("get_frame", <<frame_num>>, "",
                                  ThermoRawReader_get_frame(frame_num))
    /\ UNCHANGED <<store, z_score_arr, ret, reader_meta_df, reader_rest>>

\* MassSpecData.create(run_name, meta_df, all_spectra) as load calls it:
\* len(p) counts the rows of whatever p is, p.mz raises AttributeError on
\* an object without that attribute
create_from_load(df, all_spectra) ==
    IF Len(df) # Len(all_spectra)
    THEN /\ reader_ret' = ReaderRet("load", <<>>, "AssertionError", <<>>)
         /\ UNCHANGED <<store, z_score_arr, ret>>
    ELSE IF \E i \in 1..Len(all_spectra) :
                ~(HasAttr(all_spectra[i], "mz") /\ HasAttr(all_spectra[i], "ab"))
    THEN /\ reader_ret' = ReaderRet("load", <<>>, "AttributeError", <<>>)
         /\ UNCHANGED <<store, z_score_arr, ret>>
    ELSE /\ NewStore(FrameNumCol(df), all_spectra)
         /\ reader_ret' = ReaderRet("load", <<>>, "", <<>>)

\* ThermoRawReader.load()
load ==
    /\ ReaderCanCall
    /\ LET df == MetaDfOf
           min_frame == df[1].frame_num
           max_frame == df[Len(df)].frame_num
           all_spectra == [k \in 1..(max_frame - min_frame + 1) |->
                              ThermoRawReader_get_frame(min_frame + k - 1)]
       IN  /\ reader_meta_df' = Some(df)
           /\ create_from_load(df, all_spectra)
    /\ UNCHANGED reader_rest

\* the caller takes the reader's result
ReaderReturn ==
    /\ ~ReaderCanCall
    /\ reader_ret' = ReaderIdle
    /\ UNCHANGED <<store, z_score_arr, ret, reader_meta_df, reader_rest>>

\* a reader opened on a RAW file, before any MassSpecData exists
ThermoInit ==
    /\ built = FALSE
    /\ list_of_peaks = <<>>
    /\ meta_df = <<>>
    /\ peaks = PeakArray(<<>>, <<>>)
    /\ frame_num_to_index = <<>>
    /\ z_score_arr = None
    /\ hdf = [k \in {run_name, other_run} |-> None]
    /\ ret = Idle
    /\ z_calls = 0
    /\ kernel_runs = 0
    /\ raw \in RawFiles
    /\ centroided \in BOOLEAN
    /\ reader_meta_df = None
    /\ reader_ret = ReaderIdle
    /\ pc = <<>>
    /\ out_buf = <<>>
    /\ task_pos = <<>>
    /\ written = <<>>

ThermoNext ==
    \/ get_meta_df
    \/ ReaderGetFrame
    \/ load
    \/ ReaderReturn

SpecThermo == ThermoInit /\ [][ThermoNext]_vars

\* ------------------------------------------ threads in compute_z_score
\* the number of threads that call compute_z_score on the one Store
MaxThreads == 2
Threads == 1..MaxThreads

\* row i of peak_range_arr: meta_df.select(peak_start, peak_stop).to_numpy()
PeakRange(i) == <<meta_df[i].peak_start, meta_df[i].peak_stop>>
PeakRangeArr == [i \in 1..Len(meta_df) |-> PeakRange(i)]

\* the MassSpecData that create(run_name, meta_df, lop) returns
IsStoreOf(frame_nums, lop) ==
    /\ built = TRUE
    /\ list_of_peaks = lop
    /\ meta_df = create_meta_df(frame_nums, lop)
    /\ peaks = create_peaks(lop)
    /\ frame_num_to_index = get_frame_num_to_index_arr(frame_nums)
    /\ z_score_arr = None

\* where a thread is in compute_z_score, and the array its kernel returned
ThreadAt(at, local) == [at |-> at, local |-> local]

\* what a thread inside compute_z_score leaves alone
thread_rest == <<store, hdf, ret, z_calls, raw, centroided, reader_meta_df,
                 reader_ret, out_buf, task_pos, written>>

\* a thread that goes on to the kernel whatever it finds in z_score_arr
ThreadTestAlways(t) ==
    /\ pc[t].at = "start"
    /\ pc' = [pc EXCEPT ![t] = ThreadAt("kernel", None)]
    /\ UNCHANGED <<z_score_arr, kernel_runs, thread_rest>>

\* `if self.z_score_arr is None:` evaluated by thread t
ThreadTest(t) ==
    /\ pc[t].at = "start"
    /\ pc' = [pc EXCEPT ![t] = IF IsNone(z_score_arr)
                               THEN ThreadAt("kernel", None)
                               ELSE ThreadAt("returned", None)]
    /\ UNCHANGED <<z_score_arr, kernel_runs, thread_rest>>

\* thread t builds peak_range_arr and runs compute_z_score_cdf_numba
ThreadKernel(t) ==
    /\ pc[t].at = "kernel"
    /\ pc' = [pc EXCEPT ![t] =
                 ThreadAt("assign",
                          Some(compute_z_score_cdf_numba(peaks.ab, PeakRangeArr)))]
    /\ kernel_runs' = kernel_runs + 1
    /\ UNCHANGED <<z_score_arr, thread_rest>>

\* `self.z_score_arr = ...` executed by thread t, which then returns
ThreadAssign(t) ==
    /\ pc[t].at = "assign"
    /\ z_score_arr' = pc[t].local
    /\ pc' = [pc EXCEPT ![t] = ThreadAt("returned", pc[t].local)]
    /\ UNCHANGED <<kernel_runs, thread_rest>>

TestStep == \E t \in Threads : ThreadTest(t)
KernelStep == \E t \in Threads : ThreadKernel(t)
AssignStep == \E t \in Threads : ThreadAssign(t)

\* a Store that create has built, every thread about to call compute_z_score
ThreadsInit ==
    /\ \E n \in 1..MaxRows :
          \E frame_nums \in FrameNumColumns(n),
             lop \in PeakListsOf(n, MaxPeaks, 0) :
              IsStoreOf(frame_nums, lop)
    /\ hdf = [k \in {run_name, other_run} |-> None]
    /\ ret = Idle
    /\ z_calls = 0
    /\ kernel_runs = 0
    /\ raw = <<>>
    /\ centroided = TRUE
    /\ reader_meta_df = None
    /\ reader_ret = <<>>
    /\ pc = [t \in Threads |-> ThreadAt("start", None)]
    /\ out_buf = <<>>
    /\ task_pos = <<>>
    /\ written = <<>>

ThreadsNext ==
    \/ TestStep
    \/ KernelStep
    \/ AssignStep

SpecThreads == ThreadsInit /\ [][ThreadsNext]_vars

\* ------------------------------------------- the kernel's parallel phase
\* the largest number of peaks of a Store the kernel runs on
MaxKernelPeaks == 4

\* 4 * q2 and 4 * iqr as the task of the range [st, ed) computes them
TaskQuantiles(ab_arr, st, ed) ==
    LET ab == Slice0(ab_arr, st, ed)
    IN  [q2 |-> Quantile4(ab, 2),
         iqr |-> Quantile4(ab, 3) - Quantile4(ab, 1)]

\* where the task of one range is: "todo", "write" with the next j, "done"
TaskAt(at, j) == [at |-> at, j |-> j]

\* what the prange loop leaves alone
kernel_rest == <<store, hdf, ret, z_calls, raw, centroided, reader_meta_df,
                 reader_ret, pc>>

\* a task that takes its range to start at the head of the arena
PeakRangeFromZero(i) == <<0, meta_df[i].peak_stop>>

\* the range the task of row i works on
TaskRange(i) == PeakRange(i)

\* prange iteration i up to its inner loop: st, ed, the quantiles and the
\* two tests; it reads ab_arr only
TaskStart(i) ==
    /\ task_pos[i].at = "todo"
    /\ LET st == TaskRange(i)[1]
           ed == TaskRange(i)[2]
       IN  task_pos' =
               [task_pos EXCEPT ![i] =
                   IF ed > st
                   THEN IF TaskQuantiles(peaks.ab, st, ed).iqr > 0
                        THEN TaskAt("write", st)
                        ELSE TaskAt("done", st)
                   ELSE TaskAt("done", st)]
    /\ UNCHANGED <<out_buf, written, z_score_arr, kernel_runs, kernel_rest>>

\* one pass of `for j in range(st, ed)` of iteration i: out[j] = _norm_cdf(z)
TaskWrite(i) ==
    /\ task_pos[i].at = "write"
    /\ LET st == TaskRange(i)[1]
           ed == TaskRange(i)[2]
           q == TaskQuantiles(peaks.ab, st, ed)
           j == task_pos[i].j
       IN  /\ out_buf' = [out_buf EXCEPT
                            ![j + 1] = _norm_cdf(4 * At0(peaks.ab, j) - q.q2, q.iqr)]
           /\ written' = [written EXCEPT ![j + 1] = @ \cup {i}]
           /\ task_pos' = [task_pos EXCEPT ![i] =
                              IF j + 1 < ed THEN TaskAt("write", j + 1)
                              ELSE TaskAt("done", j + 1)]
    /\ UNCHANGED <<z_score_arr, kernel_runs, kernel_rest>>

StartStep == \E i \in DOMAIN task_pos : TaskStart(i)
WriteStep == \E i \in DOMAIN task_pos : TaskWrite(i)

\* `return out` once every iteration has finished, and the assignment of
\* compute_z_score that takes it
KernelReturn ==
    /\ \A i \in DOMAIN task_pos : task_pos[i].at = "done"
    /\ IsNone(z_score_arr)
    /\ z_score_arr' = Some(out_buf)
    /\ kernel_runs' = kernel_runs + 1
    /\ UNCHANGED <<out_buf, task_pos, written, kernel_rest>>

\* a Store that create has built, and the kernel called on it: out is
\* allocated and filled with 0.5, no iteration of the prange loop has begun
KernelInit ==
    /\ \E n \in 1..MaxRows :
          \E lop \in PeakListsOf(n, MaxKernelPeaks, 0) :
              IsStoreOf([k \in 1..n |-> k - 1], lop)
    /\ hdf = [k \in {run_name, other_run} |-> None]
    /\ ret = Idle
    /\ z_calls = 0
    /\ kernel_runs = 0
    /\ raw = <<>>
    /\ centroided = TRUE
    /\ reader_meta_df = None
    /\ reader_ret = <<>>
    /\ pc = <<>>
    /\ out_buf = [j \in 1..Len(peaks.ab) |-> Half]
    /\ task_pos = [i \in 1..Len(meta_df) |-> TaskAt("todo", 0)]
    /\ written = [j \in 1..Len(peaks.ab) |-> {}]

KernelNext ==
    \/ StartStep
    \/ WriteStep
    \/ KernelReturn

SpecKernel == KernelInit /\ [][KernelNext]_vars

\* ================================================================ claims
NRows == Len(meta_df)

\* the frame numbers of the metadata table, and the row (1-based) of one
PresentFrameNums == {meta_df[i].frame_num : i \in 1..NRows}
RowOf(f) == CHOOSE i \in 1..NRows : meta_df[i].frame_num = f

MaxOf(S) == CHOOSE x \in S : \A y \in S : y <= x

\* ---------------------------------------------------------------- C1
ArenaOK ==
    /\ meta_df[1].peak_start = 0
    /\ \A i \in 1..NRows :
          meta_df[i].peak_stop = meta_df[i].peak_start + PeakLen(list_of_peaks[i])
    /\ \A i \in 1..(NRows - 1) : meta_df[i + 1].peak_start = meta_df[i].peak_stop
    /\ meta_df[NRows].peak_stop = Len(peaks.mz)
    /\ Len(peaks.mz) = Len(peaks.ab)

\* C1: every Store that create returns has peak_start[0] = 0, peak_stop[i] =
\* peak_start[i] + len(list_of_peaks[i]), peak_start[i+1] = peak_stop[i] and
\* peak_stop[last] = len(peaks.mz) = len(peaks.ab), for any mix of empty and
\* non-empty peak lists; and no later call (get_peak_index, get_frame,
\* get_all_peak_df, collect_peaks, compute_z_score, write_hdf) changes
\* meta_df, peaks or frame_num_to_index, so this keeps holding.
C1_ArenaInvariant ==
    /\ [](built => NRows = Len(list_of_peaks) /\ ArenaOK)
    /\ [][built => UNCHANGED <<meta_df, peaks, frame_num_to_index>>]_vars

\* a Store of an empty scan followed by a scan with peaks, after its
\* z-scores were computed and it was written out
C1_Witness ==
    /\ built
    /\ NRows = 2
    /\ PeakLen(list_of_peaks[1]) = 0
    /\ PeakLen(list_of_peaks[2]) = 2
    /\ ~IsNone(z_score_arr)
    /\ ret.op = "write_hdf"
    /\ ret.err = ""

\* ---------------------------------------------------------------- C2
\* C2: for a Store built from an ascending, unique frame_num column,
\* frame_num_to_index has length max(frame_num) + 1, holds r at the
\* frame_num of every row r (0-based), and holds 0 at every position that
\* is no frame_num of the table.
C2_FrameIndex ==
    built =>
        /\ Len(frame_num_to_index) = MaxOf(PresentFrameNums) + 1
        /\ \A r \in 1..NRows :
              At0(frame_num_to_index, meta_df[r].frame_num) = r - 1
        /\ \A k \in 0..(Len(frame_num_to_index) - 1) :
              k \notin PresentFrameNums => At0(frame_num_to_index, k) = 0

\* a Store of two rows whose frame numbers leave a gap between them
C2_Witness ==
    /\ built
    /\ NRows = 2
    /\ meta_df[1].frame_num = 0
    /\ meta_df[2].frame_num = 2
    /\ frame_num_to_index = <<0, 0, 1>>

\* ---------------------------------------------------------------- C3
\* C3: get_frame(frame_num of row i) returns exactly list_of_peaks[i]: the
\* same mz and the same intensities, in the same order, the empty list for
\* a scan without peaks.
C3_GetFrameRoundTrip ==
    (ret.op = "get_frame" /\ ret.arg[1] \in PresentFrameNums) =>
        /\ ret.err = ""
        /\ ret.mz = list_of_peaks[RowOf(ret.arg[1])].mz
        /\ ret.ab = list_of_peaks[RowOf(ret.arg[1])].ab

\* get_frame of the second row returned its peak, the first row holding
\* another one
C3_Witness ==
    /\ ret.op = "get_frame"
    /\ NRows = 2
    /\ ret.arg[1] = meta_df[2].frame_num
    /\ PeakLen(list_of_peaks[1]) = 1
    /\ ret.mz = <<MzOf(2)>>
    /\ ret.ab # list_of_peaks[1].ab

\* ---------------------------------------------------------------- C4
\* C4: get_peak_index(frame_num) raises for every frame_num that is not a
\* frame_num of a metadata row (above the maximum, negative, or in a gap);
\* it never returns the range of a row for an absent scan.
C4_AbsentScanFails ==
    (ret.op = "get_peak_index" /\ ret.arg[1] \notin PresentFrameNums) =>
        ret.err # ""

\* ---------------------------------------------------------------- C5
RECURSIVE SumSeq(_)
SumSeq(ns) == IF ns = <<>> THEN 0 ELSE Head(ns) + SumSeq(Tail(ns))

AllPresent(fs) == \A k \in 1..Len(fs) : fs[k] \in PresentFrameNums

\* C5: for frame_nums present in the Store (any order, duplicates allowed)
\* collect_peaks returns arrays whose length is the sum of the requested
\* scans' peak counts, one block per requested identifier in the requested
\* order: mz and ab of block k are get_frame(frame_nums[k]) and the
\* frame_num array holds frame_nums[k] all over block k.
C5_CollectBlocks ==
    (ret.op = "collect_peaks" /\ AllPresent(ret.arg)) =>
        LET fs == ret.arg
            total == SumSeq([k \in 1..Len(fs) |->
                                PeakLen(list_of_peaks[RowOf(fs[k])])])
        IN  /\ ret.err = ""
            /\ Len(ret.mz) = total
            /\ Len(ret.ab) = total
            /\ Len(ret.frame_num) = total
            /\ ret.mz = Concatenate([k \in 1..Len(fs) |-> get_frame(fs[k]).mz])
            /\ ret.ab = Concatenate([k \in 1..Len(fs) |-> get_frame(fs[k]).ab])
            /\ ret.frame_num =
                   Concatenate([k \in 1..Len(fs) |->
                       [j \in 1..Len(get_frame(fs[k]).mz) |-> fs[k]]])

\* collect_peaks([b, a]) of two scans a < b with one peak each returned the
\* peak of b, then the peak of a
C5_Witness ==
    /\ ret.op = "collect_peaks"
    /\ NRows = 2
    /\ ret.arg = <<meta_df[2].frame_num, meta_df[1].frame_num>>
    /\ ret.mz = <<MzOf(2), MzOf(1)>>
    /\ ret.frame_num = ret.arg

\* ---------------------------------------------------------------- C6
\* C6: the fourth output of collect_peaks is None exactly when
\* compute_z_score has not been called on the Store yet; after a call it is
\* as long as the mz output and its k-th block is the slice
\* [peak_start, peak_stop) of z_score_arr of the k-th requested scan.
C6_CollectZScore ==
    (ret.op = "collect_peaks" /\ ret.err = "") =>
        /\ IsNone(ret.z) <=> z_calls = 0
        /\ z_calls > 0 =>
              /\ Len(TheVal(ret.z)) = Len(ret.mz)
              /\ AllPresent(ret.arg) =>
                    TheVal(ret.z) =
                        Concatenate([k \in 1..Len(ret.arg) |->
                            Slice0(TheVal(z_score_arr),
                                   meta_df[RowOf(ret.arg[k])].peak_start,
                                   meta_df[RowOf(ret.arg[k])].peak_stop)])

\* after compute_z_score, collect_peaks([a, a]) of a scan with two
\* different intensities returned its two z-scores twice
C6_Witness ==
    /\ ret.op = "collect_peaks"
    /\ ret.err = ""
    /\ z_calls > 0
    /\ Len(ret.arg) = 2
    /\ ret.arg[1] = ret.arg[2]
    /\ ~IsNone(ret.z)
    /\ Len(TheVal(ret.z)) = 4
    /\ TheVal(ret.z)[1] # Half
    /\ TheVal(ret.z)[1] # TheVal(ret.z)[2]

\* ---------------------------------------------------------------- C7
\* C7: create called with a metadata table whose row count differs from the
\* number of peak lists raises (the assert) and leaves no Store behind, not
\* a partial one either.
C7_ShapeMismatch ==
    (ret.op = "create" /\ ret.arg[1] # ret.arg[2]) =>
        /\ ret.err = "AssertionError"
        /\ ~built
        /\ meta_df = <<>>
        /\ peaks = PeakArray(<<>>, <<>>)
        /\ frame_num_to_index = <<>>

\* create was called with two rows and one peak list
C7_Witness ==
    /\ ret.op = "create"
    /\ ret.arg = <<2, 1>>
    /\ ret.err # ""

\* ---------------------------------------------------------------- C8
\* C8: in a sequential series of calls the z-score kernel runs at most once:
\* the first compute_z_score call sets z_score_arr, every later call is a
\* no-op, and once z_score_arr is present no call changes or clears it.
C8_ZScoreOnce ==
    [][/\ (ret = Idle /\ ret'.op = "compute_z_score" /\ z_calls = 0) =>
              (~IsNone(z_score_arr') /\ kernel_runs' = 1)
       /\ (ret = Idle /\ ret'.op = "compute_z_score" /\ z_calls > 0) =>
              (z_score_arr' = z_score_arr /\ kernel_runs' = kernel_runs)
       /\ ~IsNone(z_score_arr) => z_score_arr' = z_score_arr
       /\ kernel_runs' <= 1]_vars

\* a second compute_z_score call has returned, the kernel having run once
C8_Witness ==
    /\ ret.op = "compute_z_score"
    /\ z_calls = 2
    /\ kernel_runs = 1
    /\ ~IsNone(z_score_arr)
    /\ Len(TheVal(z_score_arr)) > 0

\* ---------------------------------------------------------------- C9
AllEqual(a) == \A i, j \in 1..Len(a) : a[i] = a[j]

\* 4 * (q3 - q1) of the intensities a
Iqr4(a) == Quantile4(a, 3) - Quantile4(a, 1)

\* C9: after compute_z_score the buffer is as long as the arena; every peak
\* of a scan whose intensities have iqr <= 0 (all equal, or a single peak)
\* has the value 0.5; an empty scan writes nothing; no value is a NaN.
C9_DegenerateHalf ==
    ~IsNone(z_score_arr) =>
        LET z == TheVal(z_score_arr)
        IN  /\ Len(z) = Len(peaks.ab)
            /\ \A j \in 1..Len(z) : z[j] # NaN
            /\ \A i \in 1..NRows :
                  LET ab == list_of_peaks[i].ab
                  IN  (ab # <<>> /\ (AllEqual(ab) \/ Iqr4(ab) <= 0)) =>
                          \A j \in (meta_df[i].peak_start + 1)..meta_df[i].peak_stop :
                              z[j] = Half

\* the z-scores of an empty scan followed by a scan of two equal
\* intensities
C9_Witness ==
    /\ ~IsNone(z_score_arr)
    /\ NRows = 2
    /\ list_of_peaks[1].ab = <<>>
    /\ list_of_peaks[2].ab = <<10, 10>>
    /\ TheVal(z_score_arr) = <<Half, Half>>

\* --------------------------------------------------------------- C10
\* C10: write_hdf(path, overwrite=False) on a container that already holds
\* a group keyed by run_name raises FileExistsError and writes nothing: that
\* group and every other group of the container are as before the call.
C10_NoOverwrite ==
    [][(/\ ret = Idle
        /\ ret'.op = "write_hdf"
        /\ ret'.arg = OverwriteArg(FALSE)
        /\ ~IsNone(hdf[run_name])) =>
           (ret'.err = "FileExistsError" /\ hdf' = hdf)]_vars

\* the refused write left the older acquisition's group in place
C10_Witness ==
    /\ ret.op = "write_hdf"
    /\ ret.arg = OverwriteArg(FALSE)
    /\ ret.err = "FileExistsError"
    /\ hdf[run_name] = Some(OldGroup)
    /\ hdf[other_run] = Some(OtherGroup)
    /\ Len(peaks.mz) > 0

\* --------------------------------------------------------------- C11
\* what write_hdf stores for this Store: the two arena arrays in arena
\* order and the metadata rows with their peak_start and peak_stop
StoredGroup == [mz |-> peaks.mz, ab |-> peaks.ab, meta_df |-> Some(meta_df)]

\* C11: after every successful write_hdf (a first write, or overwrite=True
\* over an existing group) the group keyed by run_name holds exactly this
\* Store's mz and ab arrays and metadata rows, nothing of an earlier group
\* of that key, and the groups of other runs are unchanged.
C11_WriteRoundTrip ==
    [][(/\ ret = Idle
        /\ ret'.op = "write_hdf"
        /\ ret'.err = "") =>
           (/\ hdf'[run_name] = Some(StoredGroup)
            /\ \A k \in (DOMAIN hdf) \ {run_name} : hdf'[k] = hdf[k]
            /\ DOMAIN hdf' = DOMAIN hdf)]_vars

\* a write with overwrite=True has replaced the group by the two peaks and
\* the two rows of this Store
C11_Witness ==
    /\ ret.op = "write_hdf"
    /\ ret.arg = OverwriteArg(TRUE)
    /\ ret.err = ""
    /\ NRows = 2
    /\ Len(peaks.mz) = 2
    /\ hdf[run_name] = Some(StoredGroup)
    /\ hdf[run_name] # Some(OldGroup)
    /\ hdf[other_run] = Some(OtherGroup)

\* C12: every peak list a ThermoRawReader produces is a PeakArray, a pair
\* (mz, ab) of one-dimensional arrays of equal length: the value get_frame
\* returns is one, and load() completes and returns a MassSpecData whose
\* peaks is a PeakArray, built from one peak list per metadata row.
C12_ThermoPeakArray ==
    /\ reader_ret.op = "get_frame" =>
          /\ reader_ret.err = ""
          /\ IsPeakArray(reader_ret.val)
          /\ Len(reader_ret.val.mz) = Len(reader_ret.val.ab)
    /\ reader_ret.op = "load" =>
          /\ reader_ret.err = ""
          /\ built
          /\ IsPeakArray(peaks)
          /\ Len(peaks.mz) = Len(peaks.ab)
          /\ Len(list_of_peaks) = Len(raw)
          /\ Len(meta_df) = Len(raw)
          /\ \A i \in 1..Len(list_of_peaks) : IsPeakArray(list_of_peaks[i])

\* --------------------------------------------------------------- C13
\* the threads that have run the kernel, and those that have assigned
RanKernel == {t \in Threads : ~IsNone(pc[t].local)}
Assigned == {t \in Threads : pc[t].at = "returned" /\ ~IsNone(pc[t].local)}

\* C13 (as stated): under any interleaving of compute_z_score calls made by
\* several threads on the same Store without external synchronization, the
\* Z-Score buffer is created at most once: the kernel is not run a second
\* time and z_score_arr is not assigned a second time.
C13_CreatedOnce ==
    /\ kernel_runs <= 1
    /\ Cardinality(Assigned) <= 1

\* C13 (amended): under any interleaving, a thread runs the kernel and
\* assigns exactly when its own test found z_score_arr absent, so the kernel
\* runs once per such thread; a thread that tests after z_score_arr became
\* present returns without running the kernel or assigning; every run
\* returns the same array, so z_score_arr, once present, keeps its value.
C13_OncePerRacingThread ==
    [][/\ \A t \in Threads :
             (pc[t].at = "start" /\ pc'[t].at # "start") =>
                 IF IsNone(z_score_arr)
                 THEN pc'[t].at = "kernel"
                 ELSE pc'[t] = ThreadAt("returned", None)
       /\ kernel_runs' = Cardinality({t \in Threads : ~IsNone(pc'[t].local)})
       /\ \A t \in Threads :
             ~IsNone(pc'[t].local) =>
                 pc'[t].local =
                     Some(compute_z_score_cdf_numba(peaks.ab, PeakRangeArr))
       /\ ~IsNone(z_score_arr) => z_score_arr' = z_score_arr]_vars

\* two threads have both found the buffer absent, both have run the kernel
\* on a scan of two different intensities and both have assigned
C13_Witness ==
    /\ kernel_runs = 2
    /\ Assigned = {1, 2}
    /\ NRows = 1
    /\ peaks.ab = <<5, 10>>
    /\ z_score_arr = pc[2].local
    /\ TheVal(z_score_arr) # <<Half, Half>>

\* --------------------------------------------------------------- C14
\* the buffer the kernel returns when it runs the ranges one after the
\* other in index order
SequentialOut == compute_z_score_cdf_numba(peaks.ab, PeakRangeArr)

\* the rows whose range [peak_start, peak_stop) covers output position j
\* (j counted from 1)
Covering(j) ==
    {i \in 1..NRows : meta_df[i].peak_start < j /\ j <= meta_df[i].peak_stop}

\* C14: in the parallel phase of compute_z_score_cdf_numba on the ranges
\* of a Store, every output position is written by at most one per-range
\* task, the task of the range that covers it, and what is written does
\* not depend on what the other tasks have done: at every point of every
\* schedule a written position holds the value of the sequential run and
\* an unwritten one holds 0.5, so the returned buffer equals the result of
\* running the ranges sequentially.
C14_ScheduleIndependent ==
    /\ \A j \in DOMAIN out_buf :
          /\ Cardinality(written[j]) <= 1
          /\ written[j] \subseteq Covering(j)
          /\ written[j] # {} => out_buf[j] = SequentialOut[j]
          /\ written[j] = {} => out_buf[j] = Half
    /\ (\A i \in DOMAIN task_pos : task_pos[i].at = "done") =>
          out_buf = SequentialOut
    /\ ~IsNone(z_score_arr) => TheVal(z_score_arr) = SequentialOut

\* the kernel has returned the buffer of two scans of two different
\* intensities each, every position written by the task of its own range
C14_Witness ==
    /\ ~IsNone(z_score_arr)
    /\ NRows = 2
    /\ peaks.ab = <<5, 10, 5, 10>>
    /\ written = <<{1}, {1}, {2}, {2}>>
    /\ TheVal(z_score_arr) = out_buf
    /\ \A j \in 1..4 : out_buf[j] # Half

\* --------------------------------------------------------------- C15
\* C15: in the table get_meta_df returns, every row of a scan with
\* ms_level >= 2 whose precursor range is not valid has
\* isolation_min_mz = PrecursorMass - IsolationWidth / 2 and
\* isolation_max_mz = PrecursorMass + IsolationWidth / 2, so that the
\* window spans IsolationWidth; every row of a scan with ms_level = 1 has
\* both bounds absent.
C15_IsolationWindow ==
    reader_ret.op = "get_meta_df" =>
        \A k \in 1..Len(reader_ret.val) :
            LET row == reader_ret.val[k]
                event == raw[row.frame_num].event
            IN  /\ event.MSOrder = 1 =>
                      /\ IsNone(row.isolation_min_mz)
                      /\ IsNone(row.isolation_max_mz)
                /\ (/\ event.MSOrder >= 2
                    /\ ~TheVal(event.Reaction).PrecursorRangeIsValid) =>
                      LET mass == TheVal(event.Reaction).PrecursorMass
                          width == TheVal(event.Reaction).IsolationWidth
                      IN  /\ row.isolation_min_mz = Some(mass - width \div 2)
                          /\ row.isolation_max_mz = Some(mass + width \div 2)
                          /\ TheVal(row.isolation_max_mz)
                                 - TheVal(row.isolation_min_mz) = width

====
